---- MODULE Spec2Model ----
(***************************************************************************)
(* Solana-Eth-Bridge locker program (program-rust/src): the instruction    *)
(* processor as a state machine over the host's account store.             *)
(*                                                                         *)
(* A u64 is held as four 16-bit limbs, least significant first, so that    *)
(* the full 64-bit width is kept; a U256 is held as 32 base-256 digits,    *)
(* least significant first.  Account data is the byte sequence the         *)
(* program packs and unpacks.                                              *)
(*                                                                         *)
(* The `+=` and `-=` on the u64 counters panic on overflow in a build with *)
(* overflow checks and wrap in a build without them; the sources fix       *)
(* neither, so overflow_checks is chosen in Init.  The system program, the *)
(* token program and the host's commit are not part of the sources: they   *)
(* are the primitives the handlers invoke, with the behaviour the handlers *)
(* rely on.                                                                *)
(***************************************************************************)
EXTENDS Integers, Sequences, FiniteSets, TLC

\* ------------------------------------------------------------------ bounds

\* Number of invocations explored from the initial state.
MaxOps == 3

\* Number of wrong accounts (a wrong address, or a first account that did not
\* sign) in the account list of one invocation.
MaxWrong == 2

\* Number of bytes an instruction buffer may carry beyond the longest payload.
MaxExtra == 1

\* ------------------------------------------------------------- u64 values

Limb == 256 * 256

\* The u64 with value n, for a literal n below 2^31.
U64Of(n) == <<n % Limb, (n \div Limb) % Limb, 0, 0>>

U64_MAX == <<Limb - 1, Limb - 1, Limb - 1, Limb - 1>>

\* u64::overflowing_add: the sum modulo 2^64 and the carry out.
overflowing_add(a, b) ==
    LET s1 == a[1] + b[1]
        s2 == a[2] + b[2] + (s1 \div Limb)
        s3 == a[3] + b[3] + (s2 \div Limb)
        s4 == a[4] + b[4] + (s3 \div Limb)
    IN  [value |-> <<s1 % Limb, s2 % Limb, s3 % Limb, s4 % Limb>>,
         overflow |-> s4 >= Limb]

\* u64::overflowing_sub: the difference modulo 2^64 and the borrow out.
overflowing_sub(a, b) ==
    LET d1 == a[1] - b[1]
        d2 == a[2] - b[2] - (IF d1 < 0 THEN 1 ELSE 0)
        d3 == a[3] - b[3] - (IF d2 < 0 THEN 1 ELSE 0)
        d4 == a[4] - b[4] - (IF d3 < 0 THEN 1 ELSE 0)
    IN  [value |-> <<d1 % Limb, d2 % Limb, d3 % Limb, d4 % Limb>>,
         overflow |-> d4 < 0]

\* a <= b on u64.
U64Le(a, b) == ~overflowing_sub(b, a).overflow

\* The bytes of a u64 most significant first.
to_be_bytes(a) ==
    <<a[4] \div 256, a[4] % 256, a[3] \div 256, a[3] % 256,
      a[2] \div 256, a[2] % 256, a[1] \div 256, a[1] % 256>>

\* u64::to_le_bytes
to_le_bytes(a) ==
    <<a[1] % 256, a[1] \div 256, a[2] % 256, a[2] \div 256,
      a[3] % 256, a[3] \div 256, a[4] % 256, a[4] \div 256>>

\* u64::from_le_bytes
from_le_bytes(bs) ==
    <<bs[1] + 256 * bs[2], bs[3] + 256 * bs[4],
      bs[5] + 256 * bs[6], bs[7] + 256 * bs[8]>>

\* `x += amount` / `x -= amount` on u64: a build with overflow checks panics
\* on overflow, a build without them stores the result modulo 2^64.
AddAssign(x, amount, checks) ==
    LET r == overflowing_add(x, amount)
    IN  [panic |-> checks /\ r.overflow, value |-> r.value]

SubAssign(x, amount, checks) ==
    LET r == overflowing_sub(x, amount)
    IN  [panic |-> checks /\ r.overflow, value |-> r.value]

\* ------------------------------------------------------------ U256 values

Zeros(n) == [i \in 1..n |-> 0]

Reverse(s) == [i \in 1..Len(s) |-> s[Len(s) + 1 - i]]

\* A widening that keeps only the low 32 bits of the u64.
U256_from_u32(a) == to_le_bytes(<<a[1], a[2], 0, 0>>) \o Zeros(24)

\* U256::from(u64)
U256_from_u64(a) == to_le_bytes(a) \o Zeros(24)

\* 10^n as an integer, for n <= 9.
RECURSIVE Pow10(_)
Pow10(n) == IF n = 0 THEN 1 ELSE 10 * Pow10(n - 1)

\* The sum of a[i] * b[k + 1 - i] for i in lo..hi: part of column k (1-based)
\* of the schoolbook product.
RECURSIVE SumProducts(_, _, _, _, _)
SumProducts(a, b, k, lo, hi) ==
    IF lo > hi THEN 0
    ELSE IF lo = hi THEN a[lo] * b[k + 1 - lo]
    ELSE LET mid == (lo + hi) \div 2
         IN  SumProducts(a, b, k, lo, mid) + SumProducts(a, b, k, mid + 1, hi)

Columns(a, b) == [k \in 1..32 |-> SumProducts(a, b, k, 1, k)]

\* Carry propagation through columns k..to of cs.
RECURSIVE Carry(_, _, _, _)
Carry(cs, k, to, carry) ==
    IF k > to THEN [digits |-> <<>>, carry |-> carry]
    ELSE LET s == cs[k] + carry
             rest == Carry(cs, k + 1, to, s \div 256)
         IN  [digits |-> <<s % 256>> \o rest.digits, carry |-> rest.carry]

MulCols(a, b) ==
    LET cs == Columns(a, b)
        b1 == Carry(cs, 1, 8, 0)
        b2 == Carry(cs, 9, 16, b1.carry)
        b3 == Carry(cs, 17, 24, b2.carry)
        b4 == Carry(cs, 25, 32, b3.carry)
    IN  [digits |-> b1.digits \o b2.digits \o b3.digits \o b4.digits,
         carry |-> b4.carry]

\* Some product a[i] * b[j] falls beyond digit 32.
HighProduct(a, b) ==
    \E i \in 1..32 : \E j \in 1..32 : i + j > 33 /\ a[i] # 0 /\ b[j] # 0

\* U256 * U256 (the `*` of spl_math::uint::U256 panics on overflow).
U256_mul(a, b) ==
    LET r == MulCols(a, b)
    IN  [value |-> r.digits, overflow |-> r.carry # 0 \/ HighProduct(a, b)]

\* U256::exp10(n), the U256 of value 10^n: a chain of multiplications, which
\* panics when 10^n does not fit 256 bits.
RECURSIVE U256_exp10(_)
U256_exp10(n) ==
    IF n <= 9
    THEN [value |-> U256_from_u64(U64Of(Pow10(n))), overflow |-> FALSE]
    ELSE LET lo == U256_exp10(n \div 2)
             hi == U256_exp10(n - (n \div 2))
             m == U256_mul(lo.value, hi.value)
         IN  [value |-> m.value,
              overflow |-> lo.overflow \/ hi.overflow \/ m.overflow]

\* The bytes of a U256 least significant first.
to_little_endian(a) == a

\* U256::to_big_endian / U256::from_big_endian
to_big_endian(a) == Reverse(a)

from_big_endian(bs) == Reverse(bs)

\* Long division of the big-endian byte string bs by d, digits k..to.
RECURSIVE DivFrom(_, _, _, _, _)
DivFrom(bs, k, to, d, rem) ==
    IF k > to THEN [digits |-> <<>>, rem |-> rem]
    ELSE LET cur == rem * 256 + bs[k]
             rest == DivFrom(bs, k + 1, to, d, cur % d)
         IN  [digits |-> <<cur \div d>> \o rest.digits, rem |-> rest.rem]

DivSmall(bs, d) ==
    LET b1 == DivFrom(bs, 1, 8, d, 0)
        b2 == DivFrom(bs, 9, 16, d, b1.rem)
        b3 == DivFrom(bs, 17, 24, d, b2.rem)
        b4 == DivFrom(bs, 25, 32, d, b3.rem)
    IN  [digits |-> b1.digits \o b2.digits \o b3.digits \o b4.digits,
         rem |-> b4.rem]

\* U256 / U256::exp10(n), for a 10^n that fits: the quotient of a by 10^n,
\* taken six decimal digits at a time.
RECURSIVE DivPow10(_, _)
DivPow10(bs, n) ==
    IF n <= 6 THEN DivSmall(bs, Pow10(n)).digits
    ELSE LET q == DivSmall(bs, 1000000).digits
         IN  IF Len(q) = 32 THEN DivPow10(q, n - 6) ELSE q

U256_div_exp10(a, n) == Reverse(DivPow10(Reverse(a), n))

\* The U256 fits a u64: the test of U256::as_u64 and of u64::try_from(U256).
FitsU64(a) == \A i \in 9..32 : a[i] = 0

\* The low 32 bits of a U256 as a u64.
low_u32(a) == from_le_bytes(SubSeq(a, 1, 4) \o Zeros(4))

\* The low 64 bits of a U256 as a u64.
low_u64(a) == from_le_bytes(SubSeq(a, 1, 8))

\* --------------------------------------------------------- decimal rescaler

\* Processor::spl_amount_from_underlying_amount
spl_amount_from_underlying_amount(underlying_decimals, spl_decimals, underlying_amount) ==
    IF underlying_decimals = spl_decimals
    THEN IF FitsU64(underlying_amount)
         THEN [res |-> "Ok", value |-> low_u64(underlying_amount)]
         ELSE [res |-> "Panic", value |-> U64Of(0)]
    ELSE IF underlying_decimals > spl_decimals
    THEN LET e == U256_exp10(underlying_decimals - spl_decimals)
             spl_amount == U256_div_exp10(underlying_amount,
                                          underlying_decimals - spl_decimals)
         IN  IF e.overflow THEN [res |-> "Panic", value |-> U64Of(0)]
             ELSE IF FitsU64(spl_amount)
             THEN [res |-> "Ok", value |-> low_u64(spl_amount)]
             ELSE [res |-> "UnexpectedDecimalConversion", value |-> U64Of(0)]
    ELSE [res |-> "UnexpectedDecimalConversion", value |-> U64Of(0)]

\* Processor::underlying_amount_from_spl_amount
underlying_amount_from_spl_amount(underlying_decimals, spl_decimals, spl_amount) ==
    IF underlying_decimals = spl_decimals
    THEN [res |-> "Ok", value |-> U256_from_u64(spl_amount)]
    ELSE IF underlying_decimals > spl_decimals
    THEN LET e == U256_exp10(underlying_decimals - spl_decimals)
             m == U256_mul(U256_from_u64(spl_amount), e.value)
         IN  IF e.overflow \/ m.overflow THEN [res |-> "Panic", value |-> m.value]
             ELSE [res |-> "Ok", value |-> m.value]
    ELSE [res |-> "UnexpectedDecimalConversion", value |-> Zeros(32)]

\* ------------------------------------------------------ binary state layouts

\* crate::types::DESTINATION_CHAIN_ADDRESS_LEN (types.rs is not among the
\* sources; state.rs tests::test_burn_log_pack packs a log into 64 = 32 + 32
\* bytes and expects success).
DESTINATION_CHAIN_ADDRESS_LEN == 32

STATESIZE == 49

LOGSIZE == 32 + DESTINATION_CHAIN_ADDRESS_LEN

\* s[from..to], 1-based and inclusive.
Slice(s, from, to) == [i \in 1..(to - from + 1) |-> s[from + i - 1]]

\* impl Pack for Locker: unpack_from_slice
Locker_unpack_from_slice(src) ==
    IF src[1] \notin {0, 1}
    THEN [ok |-> FALSE, err |-> "InvalidAccountData"]
    ELSE [ok |-> TRUE,
          v |-> [is_initialized |-> src[1] = 1,
                 authority |-> Slice(src, 2, 33),
                 total_locked |-> from_le_bytes(Slice(src, 34, 41)),
                 total_minted |-> from_le_bytes(Slice(src, 42, 49))]]

\* pack_into_slice writing the authority's bytes in the opposite order.
Locker_pack_into_slice_rev(self) ==
    <<IF self.is_initialized THEN 1 ELSE 0>>
        \o [i \in 1..32 |-> self.authority[33 - i]]
        \o to_le_bytes(self.total_locked)
        \o to_le_bytes(self.total_minted)

\* pack_into_slice writing each counter where the other belongs.
Locker_pack_into_slice_swapped(self) ==
    <<IF self.is_initialized THEN 1 ELSE 0>>
        \o self.authority
        \o to_le_bytes(self.total_minted)
        \o to_le_bytes(self.total_locked)

\* impl Pack for Locker: pack_into_slice
Locker_pack_into_slice(self) ==
    <<IF self.is_initialized THEN 1 ELSE 0>>
        \o self.authority
        \o to_le_bytes(self.total_locked)
        \o to_le_bytes(self.total_minted)

\* Pack::unpack_unchecked for Locker: the length check, then unpack_from_slice.
Locker_unpack_unchecked(input) ==
    IF Len(input) # STATESIZE
    THEN [ok |-> FALSE, err |-> "InvalidAccountData"]
    ELSE Locker_unpack_from_slice(input)

\* Locker::pack reporting success without writing the record.
Locker_pack_nowrite(src, dst) == [ok |-> TRUE, err |-> "Ok", data |-> dst]

\* Pack::pack for Locker: the length check, then pack_into_slice.
Locker_pack(src, dst) ==
    IF Len(dst) # STATESIZE
    THEN [ok |-> FALSE, err |-> "InvalidAccountData", data |-> dst]
    ELSE [ok |-> TRUE, err |-> "Ok", data |-> Locker_pack_into_slice(src)]

\* impl IsInitialized for Locker
is_initialized(self) == self.is_initialized

\* impl Pack for LockAndMintLog
LockAndMintLog_unpack_from_slice(src) ==
    [amount |-> from_big_endian(Slice(src, 1, 32)),
     recipient |-> Slice(src, 33, LOGSIZE)]

LockAndMintLog_pack_into_slice(self) ==
    to_big_endian(self.amount) \o self.recipient

LockAndMintLog_unpack_unchecked(input) ==
    IF Len(input) # LOGSIZE
    THEN [ok |-> FALSE, err |-> "InvalidAccountData"]
    ELSE [ok |-> TRUE, v |-> LockAndMintLog_unpack_from_slice(input)]

\* LockAndMintLog::pack reporting success without writing the entry.
LockAndMintLog_pack_nowrite(src, dst) == [ok |-> TRUE, err |-> "Ok", data |-> dst]

LockAndMintLog_pack(src, dst) ==
    IF Len(dst) # LOGSIZE
    THEN [ok |-> FALSE, err |-> "InvalidAccountData", data |-> dst]
    ELSE [ok |-> TRUE, err |-> "Ok", data |-> LockAndMintLog_pack_into_slice(src)]

\* impl Pack for BurnAndReleaseLog
BurnAndReleaseLog_unpack_from_slice(src) ==
    [amount |-> from_big_endian(Slice(src, 1, 32)),
     recipient |-> Slice(src, 33, LOGSIZE)]

BurnAndReleaseLog_pack_into_slice(self) ==
    to_big_endian(self.amount) \o self.recipient

BurnAndReleaseLog_unpack_unchecked(input) ==
    IF Len(input) # LOGSIZE
    THEN [ok |-> FALSE, err |-> "InvalidAccountData"]
    ELSE [ok |-> TRUE, v |-> BurnAndReleaseLog_unpack_from_slice(input)]

BurnAndReleaseLog_pack(src, dst) ==
    IF Len(dst) # LOGSIZE
    THEN [ok |-> FALSE, err |-> "InvalidAccountData", data |-> dst]
    ELSE [ok |-> TRUE, err |-> "Ok", data |-> BurnAndReleaseLog_pack_into_slice(src)]

\* ------------------------------------------------ errors and wire decoding

\* impl From<LockerError> for ProgramError: Custom(e as u32)
ProgramError_from(e) ==
    CASE e = "InvalidAuthority" -> "Custom(0)"
      [] e = "InvalidInstruction" -> "Custom(1)"
      [] e = "UnexpectedDecimalConversion" -> "Custom(2)"

\* <[u8; 32]>::try_from(rest) for a slice: the lengths must be equal.
try_from_32(rest) ==
    IF Len(rest) = 32 THEN [ok |-> TRUE, v |-> rest] ELSE [ok |-> FALSE]

\* LockerInstruction::unpack_amount
unpack_amount(input) ==
    IF Len(input) < 8
    THEN [ok |-> FALSE, err |-> ProgramError_from("InvalidInstruction")]
    ELSE [ok |-> TRUE, v |-> from_le_bytes(Slice(input, 1, 8))]

\* The amount and destination fields LockAndMint and BurnAndRelease read
\* from the first 8 + DESTINATION_CHAIN_ADDRESS_LEN bytes of rest.
AmountDestination(rest) ==
    [amount |-> from_le_bytes(Slice(rest, 1, 8)),
     destination |-> Slice(rest, 9, 8 + DESTINATION_CHAIN_ADDRESS_LEN)]

\* LockerInstruction::unpack
LockerInstruction_unpack(input) ==
    IF input = <<>>
    THEN [ok |-> FALSE, err |-> ProgramError_from("InvalidInstruction")]
    ELSE
    LET tag == Head(input)
        rest == Tail(input)
    IN
    CASE tag = 0 ->
           IF Len(rest) >= 32
           THEN LET authority_bytes == try_from_32(rest)
                IN  IF authority_bytes.ok
                    THEN [ok |-> TRUE,
                          v |-> [tag |-> "Initialize",
                                 authority |-> authority_bytes.v]]
                    ELSE [ok |-> FALSE,
                          err |-> ProgramError_from("InvalidAuthority")]
           ELSE [ok |-> FALSE, err |-> ProgramError_from("InvalidAuthority")]
      [] tag = 1 ->
           IF Len(rest) >= 8 + DESTINATION_CHAIN_ADDRESS_LEN
           THEN [ok |-> TRUE,
                 v |-> [tag |-> "LockAndMint"] @@ AmountDestination(rest)]
           ELSE [ok |-> FALSE, err |-> ProgramError_from("InvalidInstruction")]
      [] tag = 2 ->
           IF Len(rest) = 8
           THEN LET a == unpack_amount(rest)
                IN  IF a.ok
                    THEN [ok |-> TRUE, v |-> [tag |-> "Release", amount |-> a.v]]
                    ELSE [ok |-> FALSE, err |-> a.err]
           ELSE [ok |-> FALSE, err |-> ProgramError_from("InvalidInstruction")]
      [] tag = 3 ->
           IF Len(rest) = 8
           THEN LET a == unpack_amount(rest)
                IN  IF a.ok
                    THEN [ok |-> TRUE, v |-> [tag |-> "Mint", amount |-> a.v]]
                    ELSE [ok |-> FALSE, err |-> a.err]
           ELSE [ok |-> FALSE, err |-> ProgramError_from("InvalidInstruction")]
      [] tag = 4 ->
           IF Len(rest) >= 8 + DESTINATION_CHAIN_ADDRESS_LEN
           THEN [ok |-> TRUE,
                 v |-> [tag |-> "BurnAndRelease"] @@ AmountDestination(rest)]
           ELSE [ok |-> FALSE, err |-> ProgramError_from("InvalidInstruction")]
      [] OTHER -> [ok |-> FALSE, err |-> "InvalidInstructionData"]

\* ------------------------------------------------- addresses and the host

Users == {"Alice", "Bob"}

ProgramId == "LockerProgram"
SystemProgram == "SystemProgram"
RentSysvar == "SysvarRent"
TokenProgram == "spl_token"
OtherProgram == "OtherProgram"

\* An account that is not one of the program's derived accounts: it is owned
\* by another program and its data has the layout of an initialized Locker.
Fake == "Fake"

Mints == {"BridgeMint", "OtherMint"}
TokenAccounts == {"TokBridge", "TokOther"}

\* Pubkey::find_program_address(&[b"Locker", seed], program_id)
find_program_address(seed) ==
    [key |-> CASE seed = "Init" -> "LockerInit"
               [] seed = "Mint" -> "LockerMint"
               [] seed = "Burn" -> "LockerBurn",
     nonce |-> 255]

StatePDA == find_program_address("Init").key
MintLogPDA == find_program_address("Mint").key
BurnLogPDA == find_program_address("Burn").key

Addresses == Users \cup {StatePDA, MintLogPDA, BurnLogPDA, Fake}

\* The 32 bytes of a user's public key.
PubkeyBytes(k) ==
    [i \in 1..32 |-> IF k = "Alice" THEN i ELSE 100 + i]

\* Static facts of the token sub-program's accounts.
TokenMint(t) == IF t = "TokBridge" THEN "BridgeMint" ELSE "OtherMint"
TokenOwner(t) == "Bob"
MintAuthority(m) == "Alice"

\* AccountInfo::owner
AccountOwner(acc, k) ==
    IF k \in DOMAIN acc THEN acc[k].owner
    ELSE IF k \in Mints \cup TokenAccounts THEN TokenProgram
    ELSE SystemProgram

\* A key comparison that accepts every key.
KeyEq_any(a, b) == TRUE

\* AccountInfo::key comparison, `a.key.eq(&b)`
KeyEq(a, b) == a = b

\* rent.minimum_balance(len) of the Rent sysvar (default parameters).
minimum_balance(len) == U64Of((128 + len) * 6960)

\* system_instruction::create_account, invoked on the system program.
create_account(acc, from, to, lamports, space, owner) ==
    IF acc[to].lamports # U64Of(0) \/ acc[to].data # <<>>
          \/ acc[to].owner # SystemProgram
    THEN [ok |-> FALSE, err |-> "Custom(0)", acc |-> acc]
    ELSE IF ~U64Le(lamports, acc[from].lamports)
    THEN [ok |-> FALSE, err |-> "Custom(1)", acc |-> acc]
    ELSE [ok |-> TRUE, err |-> "Ok",
          acc |-> [acc EXCEPT
             ![from].lamports = overflowing_sub(acc[from].lamports, lamports).value,
             ![to] = [lamports |-> lamports, data |-> Zeros(space), owner |-> owner]]]

\* system_instruction::transfer, invoked on the system program: the source
\* must hold the amount and the credit must not overflow.
transfer(acc, from, to, lamports) ==
    IF ~U64Le(lamports, acc[from].lamports)
    THEN [ok |-> FALSE, err |-> "Custom(1)", acc |-> acc]
    ELSE LET debited == [acc EXCEPT
                 ![from].lamports = overflowing_sub(acc[from].lamports, lamports).value]
             credit == overflowing_add(debited[to].lamports, lamports)
         IN  IF credit.overflow
             THEN [ok |-> FALSE, err |-> "InvalidArgument", acc |-> acc]
             ELSE [ok |-> TRUE, err |-> "Ok",
                   acc |-> [debited EXCEPT ![to].lamports = credit.value]]

\* spl_token::instruction::mint_to, invoked on the token program.
mint_to(tok, mint, account, owner, amount) ==
    IF mint \notin Mints \/ account \notin TokenAccounts
    THEN [ok |-> FALSE, err |-> "InvalidAccountData", tok |-> tok]
    ELSE IF TokenMint(account) # mint
    THEN [ok |-> FALSE, err |-> "Custom(3)", tok |-> tok]
    ELSE IF MintAuthority(mint) # owner
    THEN [ok |-> FALSE, err |-> "Custom(4)", tok |-> tok]
    ELSE LET sup == overflowing_add(tok[mint].supply, amount)
             bal == overflowing_add(tok[mint].balance, amount)
         IN  IF sup.overflow \/ bal.overflow
             THEN [ok |-> FALSE, err |-> "Custom(14)", tok |-> tok]
             ELSE [ok |-> TRUE, err |-> "Ok",
                   tok |-> [tok EXCEPT ![mint] =
                              [supply |-> sup.value, balance |-> bal.value]]]

\* spl_token::instruction::burn, invoked on the token program.
burn(tok, account, mint, authority, amount) ==
    IF mint \notin Mints \/ account \notin TokenAccounts
    THEN [ok |-> FALSE, err |-> "InvalidAccountData", tok |-> tok]
    ELSE IF TokenMint(account) # mint
    THEN [ok |-> FALSE, err |-> "Custom(3)", tok |-> tok]
    ELSE IF TokenOwner(account) # authority
    THEN [ok |-> FALSE, err |-> "Custom(4)", tok |-> tok]
    ELSE IF ~U64Le(amount, tok[mint].balance)
    THEN [ok |-> FALSE, err |-> "Custom(1)", tok |-> tok]
    ELSE [ok |-> TRUE, err |-> "Ok",
          tok |-> [tok EXCEPT ![mint] =
             [supply |-> overflowing_sub(tok[mint].supply, amount).value,
              balance |-> overflowing_sub(tok[mint].balance, amount).value]]]

\* ------------------------------------------------------------------- state

VARIABLES
    accounts,         \* address -> [lamports, data, owner]: the host's accounts
    tokens,           \* mint -> [supply, balance]: the token sub-program's state
    overflow_checks,  \* whether the build panics on u64 overflow
    nops,             \* invocations made so far
    last,             \* the last invocation: operation, input, result, exit
                      \* line, whether the handler had written anything when
                      \* it returned, and the accounts whose data it borrowed
    call,             \* the last call of a pure function of the program made
                      \* on its own: the function, its argument, what it returned
    totals            \* the amounts of the successful LockAndMint, Release,
                      \* Mint and BurnAndRelease invocations so far, summed
                      \* per operation without any wrap-around

vars == <<accounts, tokens, overflow_checks, nops, last, call, totals>>

\* What a handler returns: the result, the source line it left at, the
\* accounts and token state as it left them (before the host commits or
\* discards them), and the accounts whose data it borrowed.
Exit(res, line, acc, tok, borrowed) ==
    [res |-> res, line |-> line, acc |-> acc, tok |-> tok, borrowed |-> borrowed]

\* ---------------------------------------------------------------- processor

\* A signer test that accepts every first account.
IsSigner_any(inp) == TRUE

\* AccountInfo::is_signer of the first account.
IsSigner(inp) == inp.is_signer

\* An authority test that accepts every signer.
AuthorityEq_any(state_info, signer) == TRUE

\* `state_info.authority.eq(signer_account_info.key)`
AuthorityEq(state_info, signer) == state_info.authority = PubkeyBytes(signer)

\* Processor::process_init_locker.  Accounts: initializer, state, mintlog,
\* burnlog, program, system program, rent sysvar.
process_init_locker(acc, tok, inp) ==
    IF inp.n < 1 THEN Exit("NotEnoughAccountKeys", 62, acc, tok, {})
    ELSE IF ~IsSigner(inp) THEN Exit("MissingRequiredSignature", 64, acc, tok, {})
    ELSE IF inp.n < 2 THEN Exit("NotEnoughAccountKeys", 67, acc, tok, {})
    ELSE IF inp.n < 3 THEN Exit("NotEnoughAccountKeys", 68, acc, tok, {})
    ELSE IF inp.n < 4 THEN Exit("NotEnoughAccountKeys", 69, acc, tok, {})
    ELSE IF inp.n < 5 THEN Exit("NotEnoughAccountKeys", 71, acc, tok, {})
    ELSE IF ~KeyEq(inp.program, ProgramId)
    THEN Exit("InvalidAccountData", 73, acc, tok, {})
    ELSE IF inp.n < 6 THEN Exit("NotEnoughAccountKeys", 76, acc, tok, {})
    ELSE IF ~KeyEq(inp.system, SystemProgram)
    THEN Exit("InvalidAccountData", 78, acc, tok, {})
    ELSE IF ~KeyEq(inp.state, find_program_address("Init").key)
    THEN Exit("InvalidAccountData", 84, acc, tok, {})
    ELSE IF inp.n < 7 THEN Exit("NotEnoughAccountKeys", 87, acc, tok, {})
    ELSE IF inp.rent # RentSysvar THEN Exit("InvalidArgument", 87, acc, tok, {})
    ELSE
    LET c1 == create_account(acc, inp.initializer, find_program_address("Init").key,
                             minimum_balance(STATESIZE), STATESIZE, ProgramId)
    IN
    IF ~c1.ok THEN Exit(c1.err, 103, c1.acc, tok, {})
    ELSE IF ~KeyEq(inp.mintlog, find_program_address("Mint").key)
    THEN Exit("InvalidAccountData", 109, c1.acc, tok, {})
    ELSE
    LET c2 == create_account(c1.acc, inp.initializer, find_program_address("Mint").key,
                             minimum_balance(LOGSIZE), LOGSIZE, ProgramId)
    IN
    IF ~c2.ok THEN Exit(c2.err, 127, c2.acc, tok, {})
    ELSE IF ~KeyEq(inp.burnlog, find_program_address("Burn").key)
    THEN Exit("InvalidAccountData", 133, c2.acc, tok, {})
    ELSE
    LET c3 == create_account(c2.acc, inp.initializer, find_program_address("Burn").key,
                             minimum_balance(LOGSIZE), LOGSIZE, ProgramId)
    IN
    IF ~c3.ok THEN Exit(c3.err, 153, c3.acc, tok, {})
    ELSE
    LET p == Locker_pack([is_initialized |-> TRUE,
                          authority |-> PubkeyBytes(inp.authority),
                          total_locked |-> U64Of(0),
                          total_minted |-> U64Of(0)],
                         c3.acc[inp.state].data)
    IN
    IF ~p.ok THEN Exit(p.err, 164, c3.acc, tok, {inp.state})
    ELSE Exit("Ok", 166, [c3.acc EXCEPT ![inp.state].data = p.data], tok, {inp.state})

\* Processor::process_lock_and_mint.  Accounts: signer, state, mintlog,
\* system program.
process_lock_and_mint(acc, tok, inp, checks) ==
    IF inp.n < 1 THEN Exit("NotEnoughAccountKeys", 176, acc, tok, {})
    ELSE IF ~IsSigner(inp) THEN Exit("MissingRequiredSignature", 178, acc, tok, {})
    ELSE IF inp.n < 2 THEN Exit("NotEnoughAccountKeys", 181, acc, tok, {})
    ELSE IF ~KeyEq(inp.state, find_program_address("Init").key)
    THEN Exit("InvalidAccountData", 184, acc, tok, {})
    ELSE IF inp.n < 3 THEN Exit("NotEnoughAccountKeys", 187, acc, tok, {})
    ELSE IF ~KeyEq(inp.mintlog, find_program_address("Mint").key)
    THEN Exit("InvalidAccountData", 190, acc, tok, {})
    ELSE IF inp.n < 4 THEN Exit("NotEnoughAccountKeys", 193, acc, tok, {})
    ELSE IF ~KeyEq(inp.system, SystemProgram)
    THEN Exit("InvalidAccountData", 195, acc, tok, {})
    ELSE
    LET u == Locker_unpack_unchecked(acc[inp.state].data)
    IN
    IF ~u.ok THEN Exit(u.err, 198, acc, tok, {inp.state})
    ELSE IF ~is_initialized(u.v)
    THEN Exit("UninitializedAccount", 200, acc, tok, {inp.state})
    ELSE
    LET sum == AddAssign(u.v.total_locked, inp.amount, checks)
    IN
    IF sum.panic THEN Exit("Panic", 202, acc, tok, {inp.state})
    ELSE
    LET p == Locker_pack([u.v EXCEPT !.total_locked = sum.value], acc[inp.state].data)
        acc1 == [acc EXCEPT ![inp.state].data = p.data]
    IN
    IF ~p.ok THEN Exit(p.err, 203, acc, tok, {inp.state})
    ELSE
    LET t == transfer(acc1, inp.signer, inp.state, inp.amount)
    IN
    IF ~t.ok THEN Exit(t.err, 218, t.acc, tok, {inp.state})
    ELSE
    LET lu == LockAndMintLog_unpack_unchecked(t.acc[inp.mintlog].data)
    IN
    IF ~lu.ok THEN Exit(lu.err, 220, t.acc, tok, {inp.state, inp.mintlog})
    ELSE
    LET am == underlying_amount_from_spl_amount(18, 9, inp.amount)
    IN
    IF am.res # "Ok" THEN Exit(am.res, 221, t.acc, tok, {inp.state, inp.mintlog})
    ELSE
    LET lp == LockAndMintLog_pack([lu.v EXCEPT !.amount = am.value,
                                                !.recipient = inp.destination],
                                  t.acc[inp.mintlog].data)
    IN
    IF ~lp.ok THEN Exit(lp.err, 223, t.acc, tok, {inp.state, inp.mintlog})
    ELSE Exit("Ok", 225, [t.acc EXCEPT ![inp.mintlog].data = lp.data], tok,
              {inp.state, inp.mintlog})

\* Processor::process_release.  Accounts: signer, state, destination, system
\* program.
process_release(acc, tok, inp, checks) ==
    IF inp.n < 1 THEN Exit("NotEnoughAccountKeys", 234, acc, tok, {})
    ELSE IF ~IsSigner(inp) THEN Exit("MissingRequiredSignature", 236, acc, tok, {})
    ELSE IF inp.n < 2 THEN Exit("NotEnoughAccountKeys", 239, acc, tok, {})
    ELSE IF ~KeyEq(inp.state, find_program_address("Init").key)
    THEN Exit("InvalidAccountData", 242, acc, tok, {})
    ELSE
    LET u == Locker_unpack_unchecked(acc[inp.state].data)
    IN
    IF ~u.ok THEN Exit(u.err, 245, acc, tok, {inp.state})
    ELSE IF ~is_initialized(u.v)
    THEN Exit("UninitializedAccount", 247, acc, tok, {inp.state})
    ELSE IF ~AuthorityEq(u.v, inp.signer)
    THEN Exit("InvalidAccountData", 250, acc, tok, {inp.state})
    ELSE
    LET diff == SubAssign(u.v.total_locked, inp.amount, checks)
    IN
    IF diff.panic THEN Exit("Panic", 252, acc, tok, {inp.state})
    ELSE
    LET p == Locker_pack([u.v EXCEPT !.total_locked = diff.value], acc[inp.state].data)
        acc1 == [acc EXCEPT ![inp.state].data = p.data]
    IN
    IF ~p.ok THEN Exit(p.err, 253, acc, tok, {inp.state})
    ELSE IF inp.n < 3 THEN Exit("NotEnoughAccountKeys", 255, acc1, tok, {inp.state})
    ELSE IF inp.n < 4 THEN Exit("NotEnoughAccountKeys", 257, acc1, tok, {inp.state})
    ELSE IF ~KeyEq(inp.system, SystemProgram)
    THEN Exit("InvalidAccountData", 259, acc1, tok, {inp.state})
    ELSE
    LET t == transfer(acc1, inp.state, inp.destination, inp.amount)
    IN
    IF ~t.ok THEN Exit(t.err, 277, t.acc, tok, {inp.state})
    ELSE Exit("Ok", 279, t.acc, tok, {inp.state})

\* process_mint without the load of the ledger state: the signer test, then
\* the token accounts and the mint_to call.
process_mint_nostate(acc, tok, inp, checks) ==
    IF inp.n < 1 THEN Exit("NotEnoughAccountKeys", 288, acc, tok, {})
    ELSE IF ~IsSigner(inp) THEN Exit("MissingRequiredSignature", 290, acc, tok, {})
    ELSE IF inp.n < 4 THEN Exit("NotEnoughAccountKeys", 311, acc, tok, {})
    ELSE IF ~KeyEq(AccountOwner(acc, inp.minter), TokenProgram)
    THEN Exit("InvalidAccountData", 313, acc, tok, {})
    ELSE IF inp.n < 5 THEN Exit("NotEnoughAccountKeys", 316, acc, tok, {})
    ELSE IF ~KeyEq(TokenProgram, inp.token_program)
    THEN Exit("InvalidAccountData", 318, acc, tok, {})
    ELSE
    LET m == mint_to(tok, inp.minter, inp.recipient, inp.signer, inp.amount)
    IN
    IF ~m.ok THEN Exit(m.err, 338, acc, m.tok, {})
    ELSE Exit("Ok", 340, acc, m.tok, {})

\* Processor::process_mint.  Accounts: signer, state, recipient token
\* account, minter, token program.
process_mint(acc, tok, inp, checks) ==
    IF inp.n < 1 THEN Exit("NotEnoughAccountKeys", 288, acc, tok, {})
    ELSE IF ~IsSigner(inp) THEN Exit("MissingRequiredSignature", 290, acc, tok, {})
    ELSE IF inp.n < 2 THEN Exit("NotEnoughAccountKeys", 293, acc, tok, {})
    ELSE IF ~KeyEq(inp.state, find_program_address("Init").key)
    THEN Exit("InvalidAccountData", 296, acc, tok, {})
    ELSE
    LET u == Locker_unpack_unchecked(acc[inp.state].data)
    IN
    IF ~u.ok THEN Exit(u.err, 299, acc, tok, {inp.state})
    ELSE IF ~is_initialized(u.v)
    THEN Exit("UninitializedAccount", 301, acc, tok, {inp.state})
    ELSE IF ~AuthorityEq(u.v, inp.signer)
    THEN Exit("InvalidAccountData", 304, acc, tok, {inp.state})
    ELSE
    LET sum == AddAssign(u.v.total_minted, inp.amount, checks)
    IN
    IF sum.panic THEN Exit("Panic", 306, acc, tok, {inp.state})
    ELSE
    LET p == Locker_pack([u.v EXCEPT !.total_minted = sum.value], acc[inp.state].data)
        acc1 == [acc EXCEPT ![inp.state].data = p.data]
    IN
    IF ~p.ok THEN Exit(p.err, 307, acc, tok, {inp.state})
    ELSE IF inp.n < 3 THEN Exit("NotEnoughAccountKeys", 309, acc1, tok, {inp.state})
    ELSE IF inp.n < 4 THEN Exit("NotEnoughAccountKeys", 311, acc1, tok, {inp.state})
    ELSE IF ~KeyEq(AccountOwner(acc1, inp.minter), TokenProgram)
    THEN Exit("InvalidAccountData", 313, acc1, tok, {inp.state})
    ELSE IF inp.n < 5 THEN Exit("NotEnoughAccountKeys", 316, acc1, tok, {inp.state})
    ELSE IF ~KeyEq(TokenProgram, inp.token_program)
    THEN Exit("InvalidAccountData", 318, acc1, tok, {inp.state})
    ELSE
    LET m == mint_to(tok, inp.minter, inp.recipient, inp.signer, inp.amount)
    IN
    IF ~m.ok THEN Exit(m.err, 338, acc1, m.tok, {inp.state})
    ELSE Exit("Ok", 340, acc1, m.tok, {inp.state})

\* process_burn_and_release with the authority test of process_mint after
\* the initialized test.
process_burn_and_release_gated(acc, tok, inp, checks) ==
    IF inp.n < 1 THEN Exit("NotEnoughAccountKeys", 350, acc, tok, {})
    ELSE IF ~IsSigner(inp) THEN Exit("MissingRequiredSignature", 352, acc, tok, {})
    ELSE IF inp.n < 2 THEN Exit("NotEnoughAccountKeys", 355, acc, tok, {})
    ELSE IF ~KeyEq(inp.state, find_program_address("Init").key)
    THEN Exit("InvalidAccountData", 358, acc, tok, {})
    ELSE
    LET u == Locker_unpack_unchecked(acc[inp.state].data)
    IN
    IF ~u.ok THEN Exit(u.err, 361, acc, tok, {inp.state})
    ELSE IF ~is_initialized(u.v)
    THEN Exit("UninitializedAccount", 363, acc, tok, {inp.state})
    ELSE IF ~AuthorityEq(u.v, inp.signer)
    THEN Exit("InvalidAccountData", 363, acc, tok, {inp.state})
    ELSE
    LET diff == SubAssign(u.v.total_minted, inp.amount, checks)
    IN
    IF diff.panic THEN Exit("Panic", 365, acc, tok, {inp.state})
    ELSE
    LET p == Locker_pack([u.v EXCEPT !.total_minted = diff.value], acc[inp.state].data)
        acc1 == [acc EXCEPT ![inp.state].data = p.data]
    IN
    IF ~p.ok THEN Exit(p.err, 366, acc, tok, {inp.state})
    ELSE IF inp.n < 3 THEN Exit("NotEnoughAccountKeys", 368, acc1, tok, {inp.state})
    ELSE IF ~KeyEq(inp.burnlog, find_program_address("Burn").key)
    THEN Exit("InvalidAccountData", 371, acc1, tok, {inp.state})
    ELSE IF inp.n < 4 THEN Exit("NotEnoughAccountKeys", 374, acc1, tok, {inp.state})
    ELSE IF inp.n < 5 THEN Exit("NotEnoughAccountKeys", 376, acc1, tok, {inp.state})
    ELSE IF ~KeyEq(AccountOwner(acc1, inp.minter), TokenProgram)
    THEN Exit("InvalidAccountData", 378, acc1, tok, {inp.state})
    ELSE IF inp.n < 6 THEN Exit("NotEnoughAccountKeys", 381, acc1, tok, {inp.state})
    ELSE IF ~KeyEq(TokenProgram, inp.token_program)
    THEN Exit("InvalidAccountData", 383, acc1, tok, {inp.state})
    ELSE
    LET b == burn(tok, inp.token_account, inp.minter, inp.signer, inp.amount)
    IN
    IF ~b.ok THEN Exit(b.err, 403, acc1, b.tok, {inp.state})
    ELSE
    LET lu == BurnAndReleaseLog_unpack_unchecked(acc1[inp.burnlog].data)
    IN
    IF ~lu.ok THEN Exit(lu.err, 405, acc1, b.tok, {inp.state, inp.burnlog})
    ELSE
    LET am == underlying_amount_from_spl_amount(18, 9, inp.amount)
    IN
    IF am.res # "Ok" THEN Exit(am.res, 406, acc1, b.tok, {inp.state, inp.burnlog})
    ELSE
    LET lp == BurnAndReleaseLog_pack([lu.v EXCEPT !.amount = am.value,
                                                  !.recipient = inp.destination],
                                     acc1[inp.burnlog].data)
    IN
    IF ~lp.ok THEN Exit(lp.err, 408, acc1, b.tok, {inp.state, inp.burnlog})
    ELSE Exit("Ok", 410, [acc1 EXCEPT ![inp.burnlog].data = lp.data], b.tok,
              {inp.state, inp.burnlog})

\* Processor::process_burn_and_release.  Accounts: signer, state, burnlog,
\* token account, minter, token program.
process_burn_and_release(acc, tok, inp, checks) ==
    IF inp.n < 1 THEN Exit("NotEnoughAccountKeys", 350, acc, tok, {})
    ELSE IF ~IsSigner(inp) THEN Exit("MissingRequiredSignature", 352, acc, tok, {})
    ELSE IF inp.n < 2 THEN Exit("NotEnoughAccountKeys", 355, acc, tok, {})
    ELSE IF ~KeyEq(inp.state, find_program_address("Init").key)
    THEN Exit("InvalidAccountData", 358, acc, tok, {})
    ELSE
    LET u == Locker_unpack_unchecked(acc[inp.state].data)
    IN
    IF ~u.ok THEN Exit(u.err, 361, acc, tok, {inp.state})
    ELSE IF ~is_initialized(u.v)
    THEN Exit("UninitializedAccount", 363, acc, tok, {inp.state})
    ELSE
    LET diff == SubAssign(u.v.total_minted, inp.amount, checks)
    IN
    IF diff.panic THEN Exit("Panic", 365, acc, tok, {inp.state})
    ELSE
    LET p == Locker_pack([u.v EXCEPT !.total_minted = diff.value], acc[inp.state].data)
        acc1 == [acc EXCEPT ![inp.state].data = p.data]
    IN
    IF ~p.ok THEN Exit(p.err, 366, acc, tok, {inp.state})
    ELSE IF inp.n < 3 THEN Exit("NotEnoughAccountKeys", 368, acc1, tok, {inp.state})
    ELSE IF ~KeyEq(inp.burnlog, find_program_address("Burn").key)
    THEN Exit("InvalidAccountData", 371, acc1, tok, {inp.state})
    ELSE IF inp.n < 4 THEN Exit("NotEnoughAccountKeys", 374, acc1, tok, {inp.state})
    ELSE IF inp.n < 5 THEN Exit("NotEnoughAccountKeys", 376, acc1, tok, {inp.state})
    ELSE IF ~KeyEq(AccountOwner(acc1, inp.minter), TokenProgram)
    THEN Exit("InvalidAccountData", 378, acc1, tok, {inp.state})
    ELSE IF inp.n < 6 THEN Exit("NotEnoughAccountKeys", 381, acc1, tok, {inp.state})
    ELSE IF ~KeyEq(TokenProgram, inp.token_program)
    THEN Exit("InvalidAccountData", 383, acc1, tok, {inp.state})
    ELSE
    LET b == burn(tok, inp.token_account, inp.minter, inp.signer, inp.amount)
    IN
    IF ~b.ok THEN Exit(b.err, 403, acc1, b.tok, {inp.state})
    ELSE
    LET lu == BurnAndReleaseLog_unpack_unchecked(acc1[inp.burnlog].data)
    IN
    IF ~lu.ok THEN Exit(lu.err, 405, acc1, b.tok, {inp.state, inp.burnlog})
    ELSE
    LET am == underlying_amount_from_spl_amount(18, 9, inp.amount)
    IN
    IF am.res # "Ok" THEN Exit(am.res, 406, acc1, b.tok, {inp.state, inp.burnlog})
    ELSE
    LET lp == BurnAndReleaseLog_pack([lu.v EXCEPT !.amount = am.value,
                                                  !.recipient = inp.destination],
                                     acc1[inp.burnlog].data)
    IN
    IF ~lp.ok THEN Exit(lp.err, 408, acc1, b.tok, {inp.state, inp.burnlog})
    ELSE Exit("Ok", 410, [acc1 EXCEPT ![inp.burnlog].data = lp.data], b.tok,
              {inp.state, inp.burnlog})

\* ------------------------------------------------------------------ inputs

Amounts == {U64Of(0), U64Of(1), U64_MAX}

DestA == [i \in 1..DESTINATION_CHAIN_ADDRESS_LEN |-> i]
DestB == [i \in 1..DESTINATION_CHAIN_ADDRESS_LEN |-> 255 - i]
Destinations == {DestA, DestB}

\* The number of accounts of the list inp that are not what the operation
\* expects at that position.
AccountFields ==
    {"state", "mintlog", "burnlog", "program", "system", "rent", "minter",
     "token_program"}

WrongCount(inp) ==
    Cardinality({f \in DOMAIN inp \cap AccountFields : inp[f] = Fake})
        + (IF inp.is_signer THEN 0 ELSE 1)

\* The account lists and payloads an invocation is made with: the full list
\* with at most MaxWrong wrong accounts, and the well-formed list cut short
\* after n accounts.  The payload is the one LockerInstruction::unpack has
\* decoded from well-formed instruction data.
InitializeInputs ==
    {inp \in [n : {7}, initializer : Users, is_signer : BOOLEAN,
              state : {StatePDA, Fake}, mintlog : {MintLogPDA, Fake},
              burnlog : {BurnLogPDA, Fake}, program : {ProgramId, Fake},
              system : {SystemProgram, Fake}, rent : {RentSysvar, Fake},
              authority : Users] : WrongCount(inp) <= MaxWrong}
    \cup
    [n : 0..6, initializer : {"Alice"}, is_signer : {TRUE},
     state : {StatePDA}, mintlog : {MintLogPDA}, burnlog : {BurnLogPDA},
     program : {ProgramId}, system : {SystemProgram}, rent : {RentSysvar},
     authority : {"Alice"}]

LockAndMintInputs ==
    {inp \in [n : {4}, signer : Users, is_signer : BOOLEAN,
              state : {StatePDA, Fake}, mintlog : {MintLogPDA, Fake},
              system : {SystemProgram, Fake},
              amount : Amounts, destination : Destinations] :
        WrongCount(inp) <= MaxWrong}
    \cup
    [n : 0..3, signer : {"Alice"}, is_signer : {TRUE},
     state : {StatePDA}, mintlog : {MintLogPDA}, system : {SystemProgram},
     amount : {U64Of(1)}, destination : {DestA}]

ReleaseInputs ==
    {inp \in [n : {4}, signer : Users, is_signer : BOOLEAN,
              state : {StatePDA, Fake}, destination : Users,
              system : {SystemProgram, Fake}, amount : Amounts] :
        WrongCount(inp) <= MaxWrong}
    \cup
    [n : 0..3, signer : Users, is_signer : {TRUE},
     state : {StatePDA}, destination : {"Bob"}, system : {SystemProgram},
     amount : {U64Of(1)}]

MintInputs ==
    {inp \in [n : {5}, signer : Users, is_signer : BOOLEAN,
              state : {StatePDA, Fake}, recipient : TokenAccounts,
              minter : Mints \cup {Fake}, token_program : {TokenProgram, Fake},
              amount : Amounts] : WrongCount(inp) <= MaxWrong}
    \cup
    [n : 0..4, signer : Users, is_signer : {TRUE},
     state : {StatePDA}, recipient : {"TokBridge"}, minter : {"BridgeMint"},
     token_program : {TokenProgram}, amount : {U64Of(1)}]

BurnAndReleaseInputs ==
    {inp \in [n : {6}, signer : Users, is_signer : BOOLEAN,
              state : {StatePDA, Fake}, burnlog : {BurnLogPDA, Fake},
              token_account : TokenAccounts, minter : Mints \cup {Fake},
              token_program : {TokenProgram, Fake},
              amount : Amounts, destination : Destinations] :
        WrongCount(inp) <= MaxWrong}
    \cup
    [n : 0..5, signer : {"Bob"}, is_signer : {TRUE},
     state : {StatePDA}, burnlog : {BurnLogPDA}, token_account : {"TokOther"},
     minter : {"OtherMint"}, token_program : {TokenProgram},
     amount : {U64Of(1)}, destination : {DestA}]

\* ------------------------------------------------------- the state machine

NoInput == [n |-> 0, is_signer |-> FALSE]

\* A host that keeps what a handler wrote whatever it returned.
HostCommit_always(r, acc, tok) == [acc |-> r.acc, tok |-> r.tok]

\* The host's all-or-nothing commit: the accounts and token state a handler
\* left become durable only when it returned Ok.
HostCommit(r, acc, tok) ==
    IF r.res = "Ok" THEN [acc |-> r.acc, tok |-> r.tok]
    ELSE [acc |-> acc, tok |-> tok]

\* A run is followed for MaxOps invocations and up to its first failed one:
\* every state the host keeps is reached by the successful invocations
\* before it.
CanInvoke == nops < MaxOps /\ last.res \in {"none", "Ok"}

\* A u64 as a number of five limbs (80 bits), wide enough for the sum of
\* MaxOps amounts.
Wide(a) == a \o <<0>>

\* The sum of two five-limb numbers.
WideAdd(x, y) ==
    LET s1 == x[1] + y[1]
        s2 == x[2] + y[2] + s1 \div 65536
        s3 == x[3] + y[3] + s2 \div 65536
        s4 == x[4] + y[4] + s3 \div 65536
        s5 == x[5] + y[5] + s4 \div 65536
    IN  <<s1 % 65536, s2 % 65536, s3 % 65536, s4 % 65536, s5 % 65536>>

\* x <= y for two five-limb numbers.
WideLe(x, y) ==
    \/ x = y
    \/ \E i \in 1..5 : x[i] < y[i] /\ \A j \in (i + 1)..5 : x[j] = y[j]

NoTotals ==
    [LockAndMint |-> Wide(U64Of(0)), Release |-> Wide(U64Of(0)),
     Mint |-> Wide(U64Of(0)), BurnAndRelease |-> Wide(U64Of(0))]

\* The totals after an invocation of op with input inp that returned res.
Tally(t, op, inp, res) ==
    IF res = "Ok" /\ op \in DOMAIN t
    THEN [t EXCEPT ![op] = WideAdd(t[op], Wide(inp.amount))]
    ELSE t

\* One invocation of operation op with input inp and handler outcome r.
Invoke(op, inp, r) ==
    LET c == HostCommit(r, accounts, tokens)
    IN  /\ accounts' = c.acc
        /\ tokens' = c.tok
        /\ nops' = nops + 1
        /\ last' = [op |-> op, inp |-> inp, res |-> r.res, line |-> r.line,
                    dirty |-> r.acc # accounts \/ r.tok # tokens,
                    borrowed |-> r.borrowed]
        /\ totals' = Tally(totals, op, inp, r.res)
        /\ UNCHANGED <<overflow_checks, call>>

\* No pure function has been called on its own.
NoCall == [fn |-> "none"]

Init ==
    /\ accounts =
         [k \in Addresses |->
            CASE k = "Alice" ->
                   [lamports |-> U64Of((128 + STATESIZE) * 6960
                                       + 2 * (128 + LOGSIZE) * 6960 + 2),
                    data |-> <<>>, owner |-> SystemProgram]
              [] k = "Bob" ->
                   [lamports |-> U64Of(2), data |-> <<>>, owner |-> SystemProgram]
              [] k = Fake ->
                   [lamports |-> U64Of(1),
                    data |-> Locker_pack_into_slice(
                               [is_initialized |-> TRUE,
                                authority |-> PubkeyBytes("Bob"),
                                total_locked |-> U64Of(2),
                                total_minted |-> U64Of(2)]),
                    owner |-> OtherProgram]
              [] OTHER ->
                   [lamports |-> U64Of(0), data |-> <<>>, owner |-> SystemProgram]]
    /\ tokens = [m \in Mints |->
                   IF m = "OtherMint"
                   THEN [supply |-> U64Of(2), balance |-> U64Of(2)]
                   ELSE [supply |-> U64Of(0), balance |-> U64Of(0)]]
    /\ overflow_checks \in BOOLEAN
    /\ nops = 0
    /\ last = [op |-> "none", inp |-> NoInput, res |-> "none", line |-> 0,
               dirty |-> FALSE, borrowed |-> {}]
    /\ call = NoCall
    /\ totals = NoTotals

Initialize ==
    /\ CanInvoke
    /\ \E inp \in InitializeInputs :
        Invoke("Initialize", inp, process_init_locker(accounts, tokens, inp))

LockAndMint ==
    /\ CanInvoke
    /\ \E inp \in LockAndMintInputs :
        Invoke("LockAndMint", inp,
               process_lock_and_mint(accounts, tokens, inp, overflow_checks))

Release ==
    /\ CanInvoke
    /\ \E inp \in ReleaseInputs :
        Invoke("Release", inp,
               process_release(accounts, tokens, inp, overflow_checks))

Mint ==
    /\ CanInvoke
    /\ \E inp \in MintInputs :
        Invoke("Mint", inp, process_mint(accounts, tokens, inp, overflow_checks))

BurnAndRelease ==
    /\ CanInvoke
    /\ \E inp \in BurnAndReleaseInputs :
        Invoke("BurnAndRelease", inp,
               process_burn_and_release(accounts, tokens, inp, overflow_checks))

Next == Initialize \/ LockAndMint \/ Release \/ Mint \/ BurnAndRelease

Spec == Init /\ [][Next]_vars

\* ------------------------------------- pure functions called on their own

\* n bytes: all zero, all 255, or a pattern without repeats nearby.
Fill(p, n) ==
    [i \in 1..n |-> CASE p = 0 -> 0
                      [] p = 1 -> 255
                      [] OTHER -> (37 * i + p) % 256]

\* Instruction buffers: the empty one, and a tag byte (the five operations,
\* the first unknown tag and the last byte value) followed by up to
\* 8 + DESTINATION_CHAIN_ADDRESS_LEN + MaxExtra bytes.
Buffers ==
    {<<>>} \cup
    {<<tag>> \o Fill(p, n) :
        tag \in 0..5 \cup {255},
        p \in 0..2,
        n \in 0..(8 + DESTINATION_CHAIN_ADDRESS_LEN + MaxExtra)}

\* A call of f on arg, made when none has been made.
Call(f, arg, ret) ==
    /\ call' = [fn |-> f, arg |-> arg, ret |-> ret]
    /\ UNCHANGED <<accounts, tokens, overflow_checks, nops, last, totals>>

Unpack ==
    /\ call = NoCall
    /\ \E input \in Buffers :
        Call("unpack", input, LockerInstruction_unpack(input))

\* u64 values: the ends of the range and one with four different limbs.
U64Samples == {U64Of(0), U64Of(1), <<513, 1027, 1541, 2055>>, U64_MAX}

\* Ledger records over every flag, four authorities and the u64 samples.
Lockers ==
    [is_initialized : BOOLEAN,
     authority : {PubkeyBytes("Alice"), PubkeyBytes("Bob"), Fill(0, 32), Fill(1, 32)},
     total_locked : U64Samples,
     total_minted : U64Samples]

\* Locker::pack into a buffer of STATESIZE bytes, then
\* Locker::unpack_unchecked of that buffer.
PackUnpack ==
    /\ call = NoCall
    /\ \E locker \in Lockers :
        LET packed == Locker_pack(locker, Zeros(STATESIZE))
        IN  Call("pack_unpack", locker,
                 [packed |-> packed,
                  unpacked |-> Locker_unpack_unchecked(packed.data)])

\* (underlying_decimals, spl_decimals) pairs: the pair the handlers use,
\* equal precisions, a difference of one, the reverse order, and the
\* differences around the largest power of ten that fits 256 bits.
Precisions ==
    {<<18, 9>>, <<9, 9>>, <<0, 0>>, <<18, 17>>, <<9, 18>>, <<0, 255>>,
     <<77, 0>>, <<78, 0>>, <<255, 0>>}

\* spl amounts: the u64 samples and the values around 10^9.
SplAmounts ==
    U64Samples \cup {U64Of(999999999), U64Of(1000000000), U64Of(1000000001)}

\* Underlying amounts, least significant byte first: 0, 1, 10^9 - 1, 10^9,
\* (2^64 - 1) * 10^9, 2^64 * 10^9 - 1, 2^64 * 10^9, 2^64 - 1, 2^64,
\* 2^256 - 1 and a pattern.
UnderlyingAmounts ==
    {Zeros(32),
     <<1>> \o Zeros(31),
     <<255, 201, 154, 59>> \o Zeros(28),
     <<0, 202, 154, 59>> \o Zeros(28),
     <<0, 54, 101, 196, 255, 255, 255, 255, 255, 201, 154, 59>> \o Zeros(20),
     <<255, 255, 255, 255, 255, 255, 255, 255, 255, 201, 154, 59>> \o Zeros(20),
     Zeros(8) \o <<0, 202, 154, 59>> \o Zeros(20),
     Fill(1, 8) \o Zeros(24),
     Zeros(8) \o <<1>> \o Zeros(23),
     Fill(1, 32),
     Fill(2, 32)}

\* underlying_amount_from_spl_amount, and spl_amount_from_underlying_amount
\* of what it returned.
UnderlyingFromSpl ==
    /\ call = NoCall
    /\ \E d \in Precisions : \E x \in SplAmounts :
        LET out == underlying_amount_from_spl_amount(d[1], d[2], x)
        IN  Call("underlying_from_spl",
                 [underlying_decimals |-> d[1], spl_decimals |-> d[2], amount |-> x],
                 [out |-> out,
                  back |-> IF out.res = "Ok"
                           THEN spl_amount_from_underlying_amount(d[1], d[2], out.value)
                           ELSE [res |-> "none"]])

\* spl_amount_from_underlying_amount, and underlying_amount_from_spl_amount
\* of what it returned.
SplFromUnderlying ==
    /\ call = NoCall
    /\ \E d \in Precisions : \E u \in UnderlyingAmounts :
        LET out == spl_amount_from_underlying_amount(d[1], d[2], u)
        IN  Call("spl_from_underlying",
                 [underlying_decimals |-> d[1], spl_decimals |-> d[2], amount |-> u],
                 [out |-> out,
                  back |-> IF out.res = "Ok"
                           THEN underlying_amount_from_spl_amount(d[1], d[2], out.value)
                           ELSE [res |-> "none"]])

\* Event-log records: the U256 samples with both destinations.
Logs == [amount : UnderlyingAmounts, recipient : Destinations]

\* The lengths of the buffer a log is packed into: LOGSIZE and its neighbours.
LogBufferLens == {LOGSIZE - 1, LOGSIZE, LOGSIZE + 1}

\* LockAndMintLog::pack or BurnAndReleaseLog::pack into a zeroed buffer of n
\* bytes, then the same type's unpack_unchecked of that buffer.
LogPackUnpack ==
    /\ call = NoCall
    /\ \E log \in Logs : \E n \in LogBufferLens : \E kind \in {"mint", "burn"} :
        LET packed == IF kind = "mint"
                      THEN LockAndMintLog_pack(log, Zeros(n))
                      ELSE BurnAndReleaseLog_pack(log, Zeros(n))
            unpacked == IF kind = "mint"
                        THEN LockAndMintLog_unpack_unchecked(packed.data)
                        ELSE BurnAndReleaseLog_unpack_unchecked(packed.data)
        IN  Call("log_pack_unpack", [kind |-> kind, log |-> log, len |-> n],
                 [packed |-> packed, unpacked |-> unpacked])

PureNext ==
    \/ Unpack
    \/ PackUnpack
    \/ UnderlyingFromSpl
    \/ SplFromUnderlying
    \/ LogPackUnpack

PureSpec == Init /\ [][PureNext]_vars

\* ------------------------------------------------------------ observations

\* The ledger singleton stored at its derived address exists and carries the
\* initialized flag.
Initialized(acc) ==
    Len(acc[StatePDA].data) = STATESIZE /\ acc[StatePDA].data[1] = 1

\* The fields of the stored ledger singleton (of an existing record).
Ledger(acc) == Locker_unpack_from_slice(acc[StatePDA].data).v

\* The 32 big-endian bytes bs hold the u64 a multiplied by 10^9: dividing
\* them by 1000 three times leaves no remainder and gives a.
IsTimes10e9(bs, a) ==
    LET q1 == DivSmall(bs, 1000)
        q2 == DivSmall(q1.digits, 1000)
        q3 == DivSmall(q2.digits, 1000)
    IN  /\ q1.rem = 0 /\ q2.rem = 0 /\ q3.rem = 0
        /\ q3.digits = Zeros(24) \o Reverse(to_le_bytes(a))

\* The step left the host's accounts and token state as they were.
Unchanged == accounts' = accounts /\ tokens' = tokens

\* ------------------------------------------------------------------ claims

\* C1: a Release whose amount exceeds the current total_locked aborts before
\* the transfer out of the ledger account is attempted, and leaves the ledger
\* account (its balance and its total_locked) as it was.
C1_ReleaseUnderflowAborts ==
    [][(/\ last'.op = "Release"
        /\ Initialized(accounts)
        /\ ~U64Le(last'.inp.amount, Ledger(accounts).total_locked))
       => (/\ last'.res # "Ok"
           /\ last'.line < 268
           /\ accounts'[StatePDA] = accounts[StatePDA])]_vars

\* C2: after a successful LockAndMint(A, D), total_locked is its previous
\* value plus exactly A, A native units have moved from the caller to the
\* ledger account, and the mint-event log holds (A * 10^9, D).
C2_LockAndMintPostconditions ==
    [][(last'.op = "LockAndMint" /\ last'.res = "Ok")
       => LET A == last'.inp.amount
              who == last'.inp.signer
              sum == overflowing_add(Ledger(accounts).total_locked, A)
              credit == overflowing_add(accounts[StatePDA].lamports, A)
              log == accounts'[MintLogPDA].data
          IN  /\ Initialized(accounts)
              /\ ~sum.overflow
              /\ Ledger(accounts').total_locked = sum.value
              /\ U64Le(A, accounts[who].lamports)
              /\ accounts'[who].lamports
                   = overflowing_sub(accounts[who].lamports, A).value
              /\ ~credit.overflow
              /\ accounts'[StatePDA].lamports = credit.value
              /\ IsTimes10e9(Slice(log, 1, 32), A)
              /\ Slice(log, 33, LOGSIZE) = last'.inp.destination]_vars

\* C3: a Release or Mint invoked by a signer other than the stored authority
\* fails, the handler has written nothing, and the accounts and the token
\* state are as before.
C3_NonAuthorityRejected ==
    [][(/\ last'.op \in {"Release", "Mint"}
        /\ Initialized(accounts)
        /\ PubkeyBytes(last'.inp.signer) # Ledger(accounts).authority)
       => (last'.res # "Ok" /\ ~last'.dirty /\ Unchanged)]_vars

\* A Release signed by someone other than the authority, with the right
\* ledger address, was turned down at the authority test.
C3_Witness ==
    /\ last.op = "Release"
    /\ last.inp.is_signer /\ last.inp.n = 4
    /\ last.inp.state = StatePDA
    /\ Initialized(accounts)
    /\ PubkeyBytes(last.inp.signer) # Ledger(accounts).authority
    /\ last.res = "InvalidAccountData" /\ last.line = 250

\* C4: an invocation that returns an error leaves the accounts (ledger, both
\* logs, the set of existing records, all balances) and the token state as
\* they were, also when the handler had already written before it failed.
C4_ErrorLeavesNoEffect ==
    [][last'.res # "Ok" => Unchanged]_vars

\* LockAndMint had stored the new total_locked when its transfer failed.
C4_Witness ==
    /\ last.op = "LockAndMint"
    /\ last.line = 218
    /\ last.res # "Ok"
    /\ last.dirty

\* C5: once the ledger is initialized it stays initialized, its authority
\* never changes, and every further Initialize fails.
C5_InitializedForGood ==
    [][Initialized(accounts)
       => (/\ Initialized(accounts')
           /\ Ledger(accounts').authority = Ledger(accounts).authority
           /\ (last'.op = "Initialize" => last'.res # "Ok"))]_vars

\* A second, well-formed Initialize naming another authority was refused by
\* the account creation, and the stored authority is not the one it named.
C5_Witness ==
    /\ last.op = "Initialize"
    /\ last.inp.is_signer /\ last.inp.n = 7 /\ WrongCount(last.inp) = 0
    /\ Initialized(accounts)
    /\ PubkeyBytes(last.inp.authority) # Ledger(accounts).authority
    /\ last.res = "Custom(0)" /\ last.line = 103

\* C6: a successful Initialize(authority) by a signer finds none of the three
\* records, creates all three at their derived addresses owned by the
\* program, and leaves the ledger as (initialized, authority, 0, 0).
C6_InitializeCreatesRecords ==
    [][(last'.op = "Initialize" /\ last'.res = "Ok")
       => (/\ last'.inp.is_signer
           /\ \A k \in {StatePDA, MintLogPDA, BurnLogPDA} : accounts[k].data = <<>>
           /\ accounts'[StatePDA] =
                [lamports |-> minimum_balance(STATESIZE),
                 data |-> <<1>> \o PubkeyBytes(last'.inp.authority) \o Zeros(16),
                 owner |-> ProgramId]
           /\ \A k \in {MintLogPDA, BurnLogPDA} :
                accounts'[k] = [lamports |-> minimum_balance(LOGSIZE),
                                data |-> Zeros(LOGSIZE),
                                owner |-> ProgramId])]_vars

\* An Initialize naming an authority other than its signer has succeeded.
C6_Witness ==
    /\ last.op = "Initialize"
    /\ last.res = "Ok"
    /\ last.inp.authority # last.inp.initializer
    /\ Ledger(accounts).authority = PubkeyBytes(last.inp.authority)

\* C7: an invocation of any operation whose first account did not sign fails
\* with MissingRequiredSignature; the handler has written nothing and the
\* accounts and token state are as before.
C7_NonSignerRejected ==
    [][(last'.op # "none" /\ last'.inp.n >= 1 /\ ~last'.inp.is_signer)
       => (/\ last'.res = "MissingRequiredSignature"
           /\ ~last'.dirty
           /\ Unchanged)]_vars

\* A Release naming the authority's own key as first account, unsigned and
\* otherwise well-formed, was refused.
C7_Witness ==
    /\ last.op = "Release"
    /\ ~last.inp.is_signer /\ WrongCount(last.inp) = 1 /\ last.inp.n = 4
    /\ Initialized(accounts)
    /\ PubkeyBytes(last.inp.signer) = Ledger(accounts).authority
    /\ last.res = "MissingRequiredSignature"

\* Some bridge-owned record of the account list inp is not at the address
\* derived from the program's identity and the record's seed.
WrongAddress(inp) ==
    \/ "state" \in DOMAIN inp /\ inp.state # StatePDA
    \/ "mintlog" \in DOMAIN inp /\ inp.mintlog # MintLogPDA
    \/ "burnlog" \in DOMAIN inp /\ inp.burnlog # BurnLogPDA

\* The invocation neither borrowed the data of the account at the wrong
\* address nor changed that account.
WrongAccountUntouched ==
    Fake \notin last'.borrowed /\ accounts'[Fake] = accounts[Fake]

\* C8 as stated: an invocation with a bridge-owned record at a wrong address
\* is rejected with InvalidAccountData and the account at the wrong address
\* is neither read nor written.
C8_WrongAddressInvalidAccountData ==
    [][(last'.op # "none" /\ WrongAddress(last'.inp))
       => (last'.res = "InvalidAccountData" /\ WrongAccountUntouched)]_vars

\* C8: an invocation with a bridge-owned record at a wrong address is always
\* rejected and the account at the wrong address is neither read nor
\* written.  When the first account signed, the code is InvalidAccountData
\* unless an earlier step of the operation has failed: the rent sysvar or an
\* account creation that Initialize reaches before it tests a log address,
\* or the total_minted underflow that BurnAndRelease reaches before it tests
\* the burn-log address.
C8_WrongAddressRejected ==
    [][(last'.op # "none" /\ WrongAddress(last'.inp))
       => (/\ last'.res # "Ok"
           /\ WrongAccountUntouched
           /\ last'.inp.is_signer
                => \/ last'.res = "InvalidAccountData"
                   \/ /\ last'.op = "Initialize"
                      /\ last'.inp.state = StatePDA
                      /\ last'.res \in {"InvalidArgument", "Custom(0)", "Custom(1)"}
                      /\ last'.line \in {87, 103, 127}
                   \/ /\ last'.op = "BurnAndRelease"
                      /\ last'.inp.state = StatePDA
                      /\ last'.res = "Panic"
                      /\ last'.line = 365)]_vars

\* A signed LockAndMint on an initialized bridge, given a look-alike ledger
\* account at another address, was refused at the address test.
C8_Witness ==
    /\ last.op = "LockAndMint"
    /\ last.inp.is_signer /\ last.inp.n = 4
    /\ last.inp.state = Fake
    /\ Initialized(accounts)
    /\ last.res = "InvalidAccountData" /\ last.line = 184

\* C9: a successful BurnAndRelease(amount, destination) decrements
\* total_minted by exactly amount, burns amount of the token and leaves
\* (amount * 10^9, destination) in the burn-event log; one whose amount
\* exceeds total_minted fails and changes nothing.
C9_BurnAndReleaseEffects ==
    [][(last'.op = "BurnAndRelease" /\ Initialized(accounts))
       => LET A == last'.inp.amount
              m == last'.inp.minter
              diff == overflowing_sub(Ledger(accounts).total_minted, A)
              log == accounts'[BurnLogPDA].data
          IN  /\ last'.res = "Ok"
                   => /\ Ledger(accounts').total_minted = diff.value
                      /\ U64Le(A, tokens[m].balance)
                      /\ tokens'[m] =
                           [supply |-> overflowing_sub(tokens[m].supply, A).value,
                            balance |-> overflowing_sub(tokens[m].balance, A).value]
                      /\ IsTimes10e9(Slice(log, 1, 32), A)
                      /\ Slice(log, 33, LOGSIZE) = last'.inp.destination
              /\ diff.overflow => (last'.res # "Ok" /\ Unchanged)]_vars

\* C10: while no Initialize has succeeded, LockAndMint, Release, Mint and
\* BurnAndRelease fail; the handler has written nothing (no balance moved, no
\* token minted or burned, no log written) and the state is as before.
C10_NothingBeforeInitialize ==
    [][(/\ ~Initialized(accounts)
        /\ last'.op \in {"LockAndMint", "Release", "Mint", "BurnAndRelease"})
       => (last'.res # "Ok" /\ ~last'.dirty /\ Unchanged)]_vars

\* A well-formed Mint signed by the token's mint authority, made before any
\* Initialize, failed at the load of the ledger.
C10_Witness ==
    /\ ~Initialized(accounts)
    /\ last.op = "Mint"
    /\ last.inp.is_signer /\ WrongCount(last.inp) = 0 /\ last.inp.n = 5
    /\ last.inp.signer = MintAuthority(last.inp.minter)
    /\ TokenMint(last.inp.recipient) = last.inp.minter
    /\ last.res = "InvalidAccountData" /\ last.line = 299

\* The event log at address k holds exactly the event (amount a rescaled to
\* 18 decimals, destination d).
LogHolds(acc, k, a, d) ==
    /\ Len(acc[k].data) = LOGSIZE
    /\ IsTimes10e9(Slice(acc[k].data, 1, 32), a)
    /\ Slice(acc[k].data, 33, LOGSIZE) = d

\* C11: a successful LockAndMint leaves exactly its own (rescaled amount,
\* destination) as the whole mint-event log and a successful BurnAndRelease
\* its own as the whole burn-event log; every other invocation, failed ones
\* included, leaves an existing log as it was.  Hence each log holds the most
\* recent successful event and nothing of an earlier one.
C11_LogsHoldLatestEvent ==
    [][/\ IF last'.op = "LockAndMint" /\ last'.res = "Ok"
          THEN LogHolds(accounts', MintLogPDA, last'.inp.amount,
                        last'.inp.destination)
          ELSE accounts[MintLogPDA].data # <<>>
                 => accounts'[MintLogPDA].data = accounts[MintLogPDA].data
       /\ IF last'.op = "BurnAndRelease" /\ last'.res = "Ok"
          THEN LogHolds(accounts', BurnLogPDA, last'.inp.amount,
                        last'.inp.destination)
          ELSE accounts[BurnLogPDA].data # <<>>
                 => accounts'[BurnLogPDA].data = accounts[BurnLogPDA].data]_vars

\* A LockAndMint of amount 0 has succeeded after one of amount 1 (the ledger
\* counts 1 locked): the log holds amount 0 and the later destination only.
C11_Witness ==
    /\ last.op = "LockAndMint"
    /\ last.res = "Ok"
    /\ last.inp.amount = U64Of(0)
    /\ Ledger(accounts).total_locked = U64Of(1)
    /\ accounts[MintLogPDA].data = Zeros(32) \o last.inp.destination

\* The payload width the operation of a tag needs.
RequiredWidth(tag) ==
    CASE tag = 0 -> 32
      [] tag \in {2, 3} -> 8
      [] tag \in {1, 4} -> 8 + DESTINATION_CHAIN_ADDRESS_LEN

TagName(tag) ==
    CASE tag = 0 -> "Initialize"
      [] tag = 1 -> "LockAndMint"
      [] tag = 2 -> "Release"
      [] tag = 3 -> "Mint"
      [] tag = 4 -> "BurnAndRelease"

\* The wire encoding of a decoded operation: its tag byte, then its fields
\* at their fixed widths, the amount little-endian.
Encode(tag, v) ==
    <<tag>> \o
    CASE tag = 0 -> v.authority
      [] tag \in {2, 3} -> to_le_bytes(v.amount)
      [] tag \in {1, 4} -> to_le_bytes(v.amount) \o v.destination

\* C12: a buffer of tag 0..4 whose payload is at least as long as the tag
\* requires decodes to the operation of that tag, and encoding the decoded
\* operation gives back the leading tag and fields of the buffer.
C12_DecodeRoundTrips ==
    (/\ call.fn = "unpack"
     /\ call.arg # <<>>
     /\ Head(call.arg) \in 0..4
     /\ Len(call.arg) - 1 >= RequiredWidth(Head(call.arg)))
    => (/\ call.ret.ok
        /\ call.ret.v.tag = TagName(Head(call.arg))
        /\ Encode(Head(call.arg), call.ret.v)
             = SubSeq(call.arg, 1, 1 + RequiredWidth(Head(call.arg))))

\* C13: decoding the empty buffer, or a buffer of tag 0..4 with a payload
\* shorter than the tag requires, fails with InvalidInstruction; decoding a
\* buffer of tag 5 or more fails with another error; no failure returns an
\* operation.
C13_DecodeFailures ==
    call.fn = "unpack"
    => LET short == \/ call.arg = <<>>
                    \/ /\ Head(call.arg) \in 0..4
                       /\ Len(call.arg) - 1 < RequiredWidth(Head(call.arg))
           unknown == call.arg # <<>> /\ Head(call.arg) >= 5
       IN  /\ short => (/\ ~call.ret.ok
                        /\ call.ret.err = ProgramError_from("InvalidInstruction"))
           /\ unknown => (/\ ~call.ret.ok
                          /\ call.ret.err # ProgramError_from("InvalidInstruction"))
           /\ ~call.ret.ok => "v" \notin DOMAIN call.ret

\* The 8 bytes bs are the u64 a, least significant byte first.
IsLittleEndian(bs, a) ==
    \A k \in 1..4 : bs[2 * k - 1] + 256 * bs[2 * k] = a[k]

\* C14: packing a ledger record gives 49 bytes, byte 0 the flag, bytes 1..33
\* the authority, bytes 33..41 total_locked and bytes 41..49 total_minted
\* little-endian, and unpacking them gives the record back.
C14_LockerPackUnpack ==
    call.fn = "pack_unpack"
    => LET data == call.ret.packed.data
       IN  /\ call.ret.packed.ok
           /\ Len(data) = 49
           /\ data[1] = (IF call.arg.is_initialized THEN 1 ELSE 0)
           /\ SubSeq(data, 2, 33) = call.arg.authority
           /\ IsLittleEndian(SubSeq(data, 34, 41), call.arg.total_locked)
           /\ IsLittleEndian(SubSeq(data, 42, 49), call.arg.total_minted)
           /\ call.ret.unpacked.ok
           /\ call.ret.unpacked.v = call.arg

\* A record with total_locked = 2^64 - 1 and total_minted = 0 has been
\* packed and unpacked.
C14_Witness ==
    /\ call.fn = "pack_unpack"
    /\ call.arg.is_initialized
    /\ call.arg.total_locked = U64_MAX
    /\ call.arg.total_minted = U64Of(0)
    /\ call.ret.unpacked.ok
    /\ call.ret.unpacked.v.total_locked = U64_MAX

\* The call was made with underlying precision 18 and native precision 9.
Is18to9 == call.arg.underlying_decimals = 18 /\ call.arg.spl_decimals = 9

\* The U256 u (least significant byte first) is a multiple of 10^9 whose
\* quotient by 10^9 fits 64 bits.
IsU64Times10e9(u) ==
    LET q1 == DivSmall(Reverse(u), 1000)
        q2 == DivSmall(q1.digits, 1000)
        q3 == DivSmall(q2.digits, 1000)
    IN  /\ q1.rem = 0 /\ q2.rem = 0 /\ q3.rem = 0
        /\ SubSeq(q3.digits, 1, 24) = Zeros(24)

\* C15: for precisions 18 and 9, narrowing the widened x succeeds and gives
\* x back for every u64 x, and widening the narrowed u gives u back for
\* every u that is a multiple of 10^9 with u / 10^9 below 2^64.
C15_RescaleRoundTrip ==
    /\ (call.fn = "underlying_from_spl" /\ Is18to9)
         => (/\ call.ret.out.res = "Ok"
             /\ call.ret.back.res = "Ok"
             /\ call.ret.back.value = call.arg.amount)
    /\ (call.fn = "spl_from_underlying" /\ Is18to9
          /\ IsU64Times10e9(call.arg.amount))
         => (/\ call.ret.out.res = "Ok"
             /\ call.ret.back.res = "Ok"
             /\ call.ret.back.value = call.arg.amount)

\* (2^64 - 1) * 10^9 has been narrowed to 2^64 - 1 and widened back.
C15_Witness ==
    /\ call.fn = "spl_from_underlying"
    /\ Is18to9
    /\ call.ret.out.res = "Ok"
    /\ call.ret.out.value = U64_MAX
    /\ call.ret.back.res = "Ok"
    /\ call.ret.back.value = call.arg.amount

\* A state address that does not match its derivation is the only address
\* test of Release and Mint; its code is the address-mismatch code.
AddressMismatchCode == "InvalidAccountData"

\* C16: a Release or Mint invoked by a signer other than the stored authority
\* (on an initialized ledger passed at its derived address) aborts with the
\* InvalidAuthority code, and that code differs from the code of an
\* account-address mismatch.
C16_NonAuthorityCode ==
    [][(/\ last'.op \in {"Release", "Mint"}
        /\ last'.inp.is_signer /\ last'.inp.n >= 2
        /\ last'.inp.state = StatePDA
        /\ Initialized(accounts)
        /\ PubkeyBytes(last'.inp.signer) # Ledger(accounts).authority)
       => (/\ last'.res = ProgramError_from("InvalidAuthority")
           /\ last'.res # AddressMismatchCode)]_vars

\* The three bridge-owned records.
Records == {StatePDA, MintLogPDA, BurnLogPDA}

\* None of the three records exists in acc.
NoRecord(acc) == \A k \in Records : acc[k].data = <<>>

\* C17 as stated: an Initialize by a signer with a record address that does
\* not match its derivation fails and leaves none of the three records
\* existing, whatever the state it is invoked in.
C17_WrongAddressNoRecord ==
    [][(/\ last'.op = "Initialize"
        /\ last'.inp.is_signer
        /\ WrongAddress(last'.inp))
       => (last'.res # "Ok" /\ NoRecord(accounts'))]_vars

\* C17: an Initialize by a signer, invoked while none of the three records
\* exists, with a record address that does not match its derivation fails
\* and leaves none of the three records existing, also when the ledger
\* address was right and the handler had created the ledger before it met
\* the wrong log address.
C17_WrongAddressCreatesNothing ==
    [][(/\ last'.op = "Initialize"
        /\ last'.inp.is_signer
        /\ WrongAddress(last'.inp)
        /\ NoRecord(accounts))
       => (last'.res # "Ok" /\ NoRecord(accounts'))]_vars

\* An Initialize with the right ledger address and a wrong mint-log address
\* had created the ledger when it was turned down at the mint-log address;
\* no record exists.
C17_Witness ==
    /\ last.op = "Initialize"
    /\ last.inp.is_signer
    /\ last.inp.state = StatePDA /\ last.inp.mintlog # MintLogPDA
    /\ last.res = "InvalidAccountData" /\ last.line = 109
    /\ last.dirty
    /\ NoRecord(accounts)

\* The step left the record at address k as it was.
SameData(k) == accounts'[k].data = accounts[k].data

\* C18: a successful LockAndMint or Release leaves total_minted and the
\* burn-event log as they were, a successful Mint or BurnAndRelease leaves
\* total_locked and the mint-event log as they were, a successful Release or
\* Mint leaves both event logs as they were, and none of the four changes
\* the initialized flag or the authority of the ledger.
C18_OnlyOwnCounter ==
    [][(/\ last'.op \in {"LockAndMint", "Release", "Mint", "BurnAndRelease"}
        /\ last'.res = "Ok")
       => (/\ Initialized(accounts) /\ Initialized(accounts')
           /\ Ledger(accounts').authority = Ledger(accounts).authority
           /\ last'.op \in {"LockAndMint", "Release"}
                => /\ Ledger(accounts').total_minted = Ledger(accounts).total_minted
                   /\ SameData(BurnLogPDA)
           /\ last'.op \in {"Mint", "BurnAndRelease"}
                => /\ Ledger(accounts').total_locked = Ledger(accounts).total_locked
                   /\ SameData(MintLogPDA)
           /\ last'.op \in {"Release", "Mint"}
                => SameData(MintLogPDA) /\ SameData(BurnLogPDA))]_vars

\* A Mint of 1 has succeeded on a ledger that counts 1 locked and holds a
\* mint event: the ledger counts 1 locked and 1 minted and the mint-event log
\* still holds the event.
C18_Witness ==
    /\ last.op = "Mint" /\ last.res = "Ok"
    /\ last.inp.amount = U64Of(1)
    /\ Initialized(accounts)
    /\ Ledger(accounts).total_locked = U64Of(1)
    /\ Ledger(accounts).total_minted = U64Of(1)
    /\ accounts[MintLogPDA].data # Zeros(LOGSIZE)

\* a < b for two U256 values: at the most significant digit where they
\* differ, a has the smaller digit.
U256_less(a, b) ==
    \E i \in 1..32 : a[i] < b[i] /\ \A j \in (i + 1)..32 : a[j] = b[j]

\* a + b for two U256 values, with the carry out of 256 bits.
U256_add(a, b) ==
    LET cs == [k \in 1..32 |-> a[k] + b[k]]
        b1 == Carry(cs, 1, 8, 0)
        b2 == Carry(cs, 9, 16, b1.carry)
        b3 == Carry(cs, 17, 24, b2.carry)
        b4 == Carry(cs, 25, 32, b3.carry)
    IN  [value |-> b1.digits \o b2.digits \o b3.digits \o b4.digits,
         overflow |-> b4.carry # 0]

\* 2^64 as a U256.
TwoTo64 == Zeros(8) \o <<1>> \o Zeros(23)

\* q is the quotient of u by 10^n truncated toward zero: q * 10^n <= u and
\* u < q * 10^n + 10^n.  (When 10^n exceeds 256 bits the quotient is 0.)
IsQuotient(q, u, n) ==
    LET e == U256_exp10(n)
        p == U256_mul(U256_from_u64(q), e.value)
        s == U256_add(p.value, e.value)
    IN  IF e.overflow THEN q = U64Of(0)
        ELSE /\ ~p.overflow /\ ~U256_less(u, p.value)
             /\ s.overflow \/ U256_less(u, s.value)

\* The quotient of u by 10^n fits 64 bits: u < 2^64 * 10^n.
QuotientFits(u, n) ==
    LET e == U256_exp10(n)
        t == U256_mul(TwoTo64, e.value)
    IN  e.overflow \/ t.overflow \/ U256_less(u, t.value)

\* C19: spl_amount_from_underlying_amount with underlying precision above
\* the native one returns the amount divided by 10^(difference), truncated
\* toward zero, when that quotient fits 64 bits and fails with
\* UnexpectedDecimalConversion when it does not; with native precision above
\* the underlying one it fails with UnexpectedDecimalConversion.
C19_NarrowingDivides ==
    call.fn = "spl_from_underlying"
    => LET u == call.arg.amount
           ud == call.arg.underlying_decimals
           sd == call.arg.spl_decimals
           out == call.ret.out
       IN  /\ ud > sd
                => IF QuotientFits(u, ud - sd)
                   THEN out.res = "Ok" /\ IsQuotient(out.value, u, ud - sd)
                   ELSE out.res = "UnexpectedDecimalConversion"
           /\ ud < sd => out.res = "UnexpectedDecimalConversion"

\* The same for precision differences of at most 77, the largest power of
\* ten a U256 holds.
C19_NarrowingDividesUpTo77 ==
    (call.fn = "spl_from_underlying"
       /\ call.arg.underlying_decimals - call.arg.spl_decimals <= 77)
    => C19_NarrowingDivides

\* C20: underlying_amount_from_spl_amount with equal precisions returns its
\* input, widened; with precisions 18 and 9 it succeeds for every u64 x,
\* returns exactly x * 10^9, and no other input gives the same output.
C20_WideningExact ==
    call.fn = "underlying_from_spl"
    => LET x == call.arg.amount
           out == call.ret.out
       IN  /\ call.arg.underlying_decimals = call.arg.spl_decimals
                => /\ out.res = "Ok"
                   /\ IsLittleEndian(SubSeq(out.value, 1, 8), x)
                   /\ SubSeq(out.value, 9, 32) = Zeros(24)
           /\ Is18to9
                => /\ out.res = "Ok"
                   /\ IsTimes10e9(Reverse(out.value), x)
                   /\ \A y \in SplAmounts \ {x} :
                        underlying_amount_from_spl_amount(18, 9, y).value
                          # out.value

\* The widening of 2^64 - 1 from 9 to 18 decimals has succeeded with a value
\* beyond 64 bits.
C20_Witness ==
    /\ call.fn = "underlying_from_spl"
    /\ Is18to9
    /\ call.arg.amount = U64_MAX
    /\ call.ret.out.res = "Ok"
    /\ ~FitsU64(call.ret.out.value)

\* C21: packing an event-log record into a buffer of exactly LOGSIZE = 32 + N
\* bytes succeeds; bytes 0..32 of the result are the amount most significant
\* byte first and bytes 32..32+N the recipient; unpacking the result gives
\* the record back; and the mint-event log and the burn-event log pack the
\* same record to the same bytes.
C21_LogPackUnpack ==
    (call.fn = "log_pack_unpack" /\ call.arg.len = LOGSIZE)
    => LET log == call.arg.log
           data == call.ret.packed.data
       IN  /\ call.ret.packed.ok
           /\ Len(data) = 32 + DESTINATION_CHAIN_ADDRESS_LEN
           /\ \A i \in 1..32 : data[i] = log.amount[33 - i]
           /\ \A i \in 1..DESTINATION_CHAIN_ADDRESS_LEN :
                data[32 + i] = log.recipient[i]
           /\ call.ret.unpacked.ok
           /\ call.ret.unpacked.v = log
           /\ LockAndMintLog_pack(log, Zeros(LOGSIZE))
                = BurnAndReleaseLog_pack(log, Zeros(LOGSIZE))

\* The burn-event record of amount 2^64 * 10^9 and the second destination has
\* been packed into 32 + N bytes and unpacked again.
C21_Witness ==
    /\ call.fn = "log_pack_unpack"
    /\ call.arg.kind = "burn" /\ call.arg.len = LOGSIZE
    /\ call.arg.log.amount = Zeros(8) \o <<0, 202, 154, 59>> \o Zeros(20)
    /\ call.arg.log.recipient = DestB
    /\ call.ret.packed.ok
    /\ call.ret.packed.data[21] = 59 /\ call.ret.packed.data[24] = 0
    /\ call.ret.unpacked.v = call.arg.log

\* C22: whenever the ledger is initialized, total_locked plus the amounts of
\* all successful Release calls equals the amounts of all successful
\* LockAndMint calls, the balance of the ledger account is its creation
\* balance plus total_locked, and the successful Release calls have moved out
\* no more than the successful LockAndMint calls have moved in.
C22_LockedIsLockedMinusReleased ==
    Initialized(accounts)
    => /\ WideAdd(Wide(Ledger(accounts).total_locked), totals.Release)
            = totals.LockAndMint
       /\ Wide(accounts[StatePDA].lamports)
            = WideAdd(Wide(minimum_balance(STATESIZE)),
                      Wide(Ledger(accounts).total_locked))
       /\ WideLe(totals.Release, totals.LockAndMint)

\* The same in a build that panics on u64 overflow.
C22_LockedIsLockedMinusReleasedChecked ==
    overflow_checks => C22_LockedIsLockedMinusReleased

\* C23: whenever the ledger is initialized, total_minted plus the amounts of
\* all successful BurnAndRelease calls equals the amounts of all successful
\* Mint calls, and the successful BurnAndRelease calls have burned no more
\* than the successful Mint calls have minted.
C23_MintedIsMintedMinusBurned ==
    Initialized(accounts)
    => /\ WideAdd(Wide(Ledger(accounts).total_minted), totals.BurnAndRelease)
            = totals.Mint
       /\ WideLe(totals.BurnAndRelease, totals.Mint)

\* The same in a build that panics on u64 overflow.
C23_MintedIsMintedMinusBurnedChecked ==
    overflow_checks => C23_MintedIsMintedMinusBurned

\* C24: a LockAndMint whose amount added to total_locked exceeds 2^64 - 1,
\* and a Mint whose amount added to total_minted exceeds 2^64 - 1, fails, and
\* the counter it leaves is the one it found: no counter is ever stored as
\* the sum reduced modulo 2^64.
C24_CounterOverflowAborts ==
    [][/\ (/\ last'.op = "LockAndMint"
            /\ Initialized(accounts)
            /\ overflowing_add(Ledger(accounts).total_locked,
                               last'.inp.amount).overflow)
           => (/\ last'.res # "Ok"
               /\ Ledger(accounts').total_locked = Ledger(accounts).total_locked)
       /\ (/\ last'.op = "Mint"
            /\ Initialized(accounts)
            /\ overflowing_add(Ledger(accounts).total_minted,
                               last'.inp.amount).overflow)
           => (/\ last'.res # "Ok"
               /\ Ledger(accounts').total_minted = Ledger(accounts).total_minted)]_vars

\* The same in a build that panics on u64 overflow.
C24_CounterOverflowAbortsChecked ==
    [][overflow_checks => C24_CounterOverflowAborts!1]_vars

\* The accounts acc with the authority field of the stored ledger replaced by
\* a and nothing else changed.
WithAuthority(acc, a) ==
    [acc EXCEPT ![StatePDA].data =
        <<acc[StatePDA].data[1]>> \o a \o Slice(acc[StatePDA].data, 34, STATESIZE)]

\* The handler of LockAndMint or BurnAndRelease.
Handle(op, acc, tok, inp, checks) ==
    IF op = "LockAndMint" THEN process_lock_and_mint(acc, tok, inp, checks)
    ELSE process_burn_and_release(acc, tok, inp, checks)

\* The outcome r2 of the handler run on acc2, the accounts of this step with
\* authority a stored, agrees with what this step did: the same result code
\* and, once the host has committed or discarded it, the same accounts but
\* for the stored authority (so the same counters, event logs and balances)
\* and the same token state.
AgreesWithStep(r2, acc2, a) ==
    /\ r2.res = last'.res
    /\ WithAuthority(HostCommit(r2, acc2, tokens).acc, Ledger(accounts).authority)
         = accounts'
    /\ Ledger(HostCommit(r2, acc2, tokens).acc).authority = a
    /\ HostCommit(r2, acc2, tokens).tok = tokens'

\* C25: take an invocation of LockAndMint or BurnAndRelease on an initialized
\* ledger, and the same invocation by the same signer on the state that
\* differs only in the stored authority: both succeed or both fail (with the
\* same code), and they leave the same counters, the same event logs, the
\* same balances and the same token state.
C25_AuthorityIrrelevant ==
    [][(/\ last'.op \in {"LockAndMint", "BurnAndRelease"}
        /\ Initialized(accounts))
       => \A a \in {PubkeyBytes(u) : u \in Users} :
            AgreesWithStep(Handle(last'.op, WithAuthority(accounts, a), tokens,
                                  last'.inp, overflow_checks),
                           WithAuthority(accounts, a), a)]_vars

\* A BurnAndRelease of 1 signed by someone other than the authority has
\* succeeded and brought total_minted from 1 down to 0.
C25_Witness ==
    /\ last.op = "BurnAndRelease" /\ last.res = "Ok"
    /\ Initialized(accounts)
    /\ PubkeyBytes(last.inp.signer) # Ledger(accounts).authority
    /\ last.inp.amount = U64Of(1)
    /\ totals.Mint = Wide(U64Of(1))
    /\ Ledger(accounts).total_minted = U64Of(0)


====
